---- MODULE Spec2Model ----
(***************************************************************************)
(* Model of the document-indexing core of rag-br:                          *)
(*   vectorize/chunking.py      Chunker                                    *)
(*   vectorize/embed.py         text_hash, Embedder                        *)
(*   vectorize/vector_store.py  VectorStore                                *)
(*   vectorize/vector_index.py  VectorIndex, IndexResult                   *)
(*                                                                         *)
(*   vectorize/config.py        ChunkerConfig                              *)
(*   scripts/build_index.py     build_index                                *)
(*                                                                         *)
(* Texts are sequences of characters over Chars.  The pretrained tokenizer *)
(* and the embedding model are external; the tokenizer is modelled by the  *)
(* class of each character (one token per token character, with its        *)
(* character offsets) and the embedding model as a deterministic function  *)
(* of the text.  The Qdrant collection is a set of points                  *)
(* [id, vector, payload].                                                  *)
(***************************************************************************)
EXTENDS Integers, Sequences, FiniteSets, TLC

VARIABLES
    initialized,   \* VectorIndex._initialized
    config,        \* VectorIndex.config (NoConfig while None)
    components,    \* which of chunker / embedder / vector_store are constructed
    store,         \* points of the Qdrant collection
    local_cache,   \* on-disk embedding cache: content hash -> vector
    upserted,      \* history: id -> the point most recently passed to upsert
    last,          \* record of the most recent call and its outcome
    prev,          \* summary of the call before it
    chunking,      \* a Chunker and the chunk call in progress on it
    build          \* a run of scripts/build_index.py

vars == <<initialized, config, components, store, local_cache, upserted, last, prev,
          chunking, build>>

----------------------------------------------------------------------------
(* Bounds *)

MaxTexts == 2       \* longest list handed to embed_with_cache
MaxBatch == 2       \* longest list of points handed to upsert
MaxTopK == 2        \* largest top_k handed to search
MaxChunkSize == 3   \* largest chunk_size and overlap tried, the worked example aside
MaxTextLen == 3     \* longest text handed to a Chunker, the worked example aside
MaxDocs == 2        \* most documents in a dataset handed to build_index
MaxIndexingBatch == 2   \* largest IndexingConfig.batch_size

----------------------------------------------------------------------------
(* Values *)

\* one character per class, by how str.strip and the tokenizer treat it:
\*   "a"   a letter: not whitespace, one token
\*   " "   a space: whitespace, no token
\*   "nl"  a line break: whitespace, one token of its own
\*   "zw"  a zero-width character: not whitespace, no token
Chars == {"a", " ", "nl", "zw"}

\* what str.strip removes
Whitespace == {" ", "nl"}

\* the characters the tokenizer emits a token for
TokenChars == {"a", "nl"}

RECURSIVE SeqsUpTo(_, _)
SeqsUpTo(S, n) ==
    IF n = 0 THEN {<<>>}
    ELSE LET shorter == SeqsUpTo(S, n - 1)
         IN  shorter \cup {Append(s, c) : s \in shorter, c \in S}

\* the documents and queries handed to a VectorIndex: empty, blank, one
\* token, no token at all, three tokens around blanks, a blank token before
\* a letter
Documents ==
    {<<>>, <<" ">>, <<"a">>, <<"zw">>, <<"a", " ", "a", " ", "a">>, <<"nl", "a">>}

Min(a, b) == IF a <= b THEN a ELSE b

SeqToSet(s) == {s[i] : i \in DOMAIN s}

\* position of the first occurrence of x in s (list.index)
IndexOf(s, x) == CHOOSE i \in DOMAIN s : s[i] = x /\ \A j \in 1..(i - 1) : s[j] # x

\* Python dict: {**base, **over} / base.update(over); the later mapping wins
Merge(base, over) ==
    [k \in DOMAIN base \cup DOMAIN over |->
        IF k \in DOMAIN over THEN over[k] ELSE base[k]]

EmptyMap == <<>>

Put(f, k, v) == [x \in DOMAIN f \cup {k} |-> IF x = k THEN v ELSE f[x]]

\* caller metadata mappings
Metadatas == {EmptyMap, [source |-> "unit-test"], [doc_id |-> 0, chunk_id |-> 7]}

\* external failures that can strike during one call: the vector database,
\* the tokenizer or the embedding model raises when it is called
Faults == {"none", "store", "tokenizer", "model"}

\* index_document reaches the store and the tokenizer before anything else
IndexFaults == Faults \ {"model"}

\* search and embed_with_cache never call the tokenizer
EmbedFaults == Faults \ {"tokenizer"}

NoExc == [class |-> "none", msg |-> ""]

Exc(class, msg) == [class |-> class, msg |-> msg]

StoreError == Exc("StoreError", "vector database failure")

TokenizerError == Exc("TokenizerError", "tokenizer failure")

ModelError == Exc("ModelError", "embedding model failure")

\* "N/A" in IndexResult.doc_id
NoDocId == -1

----------------------------------------------------------------------------
(* vectorize/embed.py, vectorize/vector_index.py: content hashes *)

CharCode(c) ==
    IF c = "a" THEN 1 ELSE IF c = " " THEN 2 ELSE IF c = "nl" THEN 3 ELSE 4

\* MD5 of the UTF-8 bytes, modelled as a collision-free numeric digest
RECURSIVE text_hash(_)
text_hash(text) ==
    IF text = <<>> THEN 0
    ELSE 5 * text_hash(SubSeq(text, 1, Len(text) - 1)) + CharCode(text[Len(text)])

hash_document(text) == text_hash(text)

\* `not text or not text.strip()`
IsEmpty(text) == text = <<>>

IsBlank(text) == \A i \in DOMAIN text : text[i] \in Whitespace

----------------------------------------------------------------------------
(* vectorize/config.py *)

ChunkerConfigValidLax(chunk_size, overlap) ==
    ~(chunk_size <= 0) /\ ~(overlap > chunk_size) /\ ~(overlap < 0)

\* ChunkerConfig.__post_init__ raises ValueError unless this holds
ChunkerConfigValid(chunk_size, overlap) ==
    ~(chunk_size <= 0) /\ ~(overlap >= chunk_size) /\ ~(overlap < 0)

Configs ==
    {[chunk_size |-> 2, overlap |-> 1, batch_size |-> 1, enable_local_cache |-> TRUE],
     [chunk_size |-> 1, overlap |-> 0, batch_size |-> 2, enable_local_cache |-> FALSE]}

NoConfig == [chunk_size |-> 0, overlap |-> 0, batch_size |-> 0, enable_local_cache |-> FALSE]

----------------------------------------------------------------------------
(* vectorize/chunking.py *)

\* offset_mapping of the tokenizer: (start, end) character offsets, 0-based,
\* end exclusive; one token per token character, no special tokens
Tokenize(text) ==
    LET all == [i \in 1..Len(text) |-> <<i - 1, i>>]
    IN  SelectSeq(all, LAMBDA o : text[o[2]] \in TokenChars)

\* the slice one iteration of the loop cuts: the tokens [start, end) that
\* exist, and the characters from the first one's start to the last one's end
chunk_slice_short(text, offsets, start, chunk_size) ==
    LET end == start + chunk_size
        chunk_offsets == SubSeq(offsets, start + 1, Min(end, Len(offsets)))
        char_start == chunk_offsets[1][1]
        char_end == chunk_offsets[Len(chunk_offsets)][1]
    IN  [start |-> start, end |-> Min(end, Len(offsets)),
         char_start |-> char_start, char_end |-> char_end,
         piece |-> SubSeq(text, char_start + 1, char_end)]

chunk_slice(text, offsets, start, chunk_size) ==
    LET end == start + chunk_size
        chunk_offsets == SubSeq(offsets, start + 1, Min(end, Len(offsets)))
        char_start == chunk_offsets[1][1]
        char_end == chunk_offsets[Len(chunk_offsets)][2]
    IN  [start |-> start, end |-> Min(end, Len(offsets)),
         char_start |-> char_start, char_end |-> char_end,
         piece |-> SubSeq(text, char_start + 1, char_end)]

\* `if chunk and chunk.strip()`
keep_chunk(piece) == piece # <<>> /\ ~IsBlank(piece)

next_start_no_overlap(start, chunk_size, overlap) == start + chunk_size

next_start(start, chunk_size, overlap) == start + chunk_size - overlap

loop_stops_early(start, n) == start + 1 < n

\* `while start < len(input_ids)`
loop_continues(start, n) == start < n

RECURSIVE chunk_loop(_, _, _, _, _)
chunk_loop(text, offsets, start, chunk_size, overlap) ==
    IF ~loop_continues(start, Len(offsets)) THEN <<>>
    ELSE LET piece == chunk_slice(text, offsets, start, chunk_size).piece
             rest == chunk_loop(text, offsets, next_start(start, chunk_size, overlap),
                                chunk_size, overlap)
         IN  IF keep_chunk(piece) THEN <<piece>> \o rest ELSE rest

chunk(text, cfg) ==
    IF IsBlank(text) THEN <<>>
    ELSE LET offsets == Tokenize(text)
         IN  IF offsets = <<>> THEN <<>>
             ELSE chunk_loop(text, offsets, 0, cfg.chunk_size, cfg.overlap)

----------------------------------------------------------------------------
(* vectorize/vector_store.py *)

\* the methods class VectorStore defines
VectorStoreMethods ==
    {"upsert", "query_search", "search_by_ids", "search_by_filter", "document_exists"}

\* limit of the scroll behind document_exists
ScrollLimit == 50

StoreIds(s) == {p.id : p \in s}

\* the client processes the points in list order: a later point with the same
\* id replaces an earlier one, and any stored point with that id
LastWithId(points, id) ==
    points[CHOOSE i \in DOMAIN points :
              points[i].id = id /\ \A j \in (i + 1)..Len(points) : points[j].id # id]

upsert_append(s, points) == s \cup SeqToSet(points)

upsert(s, points) ==
    LET ids == {points[i].id : i \in DOMAIN points}
    IN  {p \in s : p.id \notin ids} \cup {LastWithId(points, id) : id \in ids}

search_by_ids(s, ids) == {p \in s : p.id \in ids}

\* every key of the filter must be present in the payload with an equal value
Matches(payload, filter) ==
    \A k \in DOMAIN filter : k \in DOMAIN payload /\ payload[k] = filter[k]

search_by_filter(s, filter, limit) ==
    LET hits == {p \in s : Matches(p.payload, filter)}
    IN  IF Cardinality(hits) <= limit THEN hits
        ELSE CHOOSE part \in SUBSET hits : Cardinality(part) = limit

document_exists(s, doc_id, metadata) ==
    LET filter_dict == Merge([doc_id |-> doc_id], metadata)
    IN  Cardinality(search_by_filter(s, filter_dict, ScrollLimit))

query_search_count_unlimited(s, limit) == Cardinality(s)

\* query_search returns at most `limit` points
query_search_count(s, limit) == Min(limit, Cardinality(s))

----------------------------------------------------------------------------
(* vectorize/embed.py *)

\* model.encode(text, normalize_embeddings=True): one fixed vector per text
ModelEncode(text) == <<Len(text), text_hash(text)>>

\* Embedder.embed: one invocation of the embedding model for the whole list
embed(texts, fault) ==
    IF fault = "model" THEN [exc |-> ModelError, vectors |-> <<>>]
    ELSE [exc |-> NoExc, vectors |-> [i \in DOMAIN texts |-> ModelEncode(texts[i])]]

\* Embedder._load_existing_embeddings: vector_store.search_by_id(h) per hash
load_existing_embeddings(hashes, vstore, fault) ==
    IF hashes = <<>> THEN [exc |-> NoExc, found |-> EmptyMap]
    ELSE IF "search_by_id" \notin VectorStoreMethods
         THEN [exc |-> Exc("AttributeError",
                           "'VectorStore' object has no attribute 'search_by_id'"),
               found |-> EmptyMap]
    ELSE IF fault = "store" THEN [exc |-> StoreError, found |-> EmptyMap]
    ELSE [exc |-> NoExc,
          found |-> [h \in SeqToSet(hashes) \cap StoreIds(vstore) |->
                        (CHOOSE p \in vstore : p.id = h).vector]]

\* Embedder._load_cached_embeddings
load_cached_embeddings(hashes, cache) ==
    [h \in SeqToSet(hashes) \cap DOMAIN cache |-> cache[h]]

\* start offsets of `range(0, n, batch_size)`
BatchStarts(n, batch_size) == {i \in 0..(n - 1) : i % batch_size = 0}

\* Embedder.embed_with_cache(texts, vector_store)
embed_with_cache(texts, vstore, cache, cfg, fault) ==
    LET hashes == [i \in DOMAIN texts |-> text_hash(texts[i])]
        existing == load_existing_embeddings(hashes, vstore, fault)
        existing_embeddings == existing.found
        remaining_hashes ==
            SelectSeq(hashes, LAMBDA h : h \notin DOMAIN existing_embeddings)
        cached_embeddings ==
            IF cfg.enable_local_cache
            THEN load_cached_embeddings(remaining_hashes, cache)
            ELSE EmptyMap
        hashes_to_embed ==
            SelectSeq(remaining_hashes, LAMBDA h : h \notin DOMAIN cached_embeddings)
        n == Len(hashes_to_embed)
        batch_hashes(i) == SubSeq(hashes_to_embed, i + 1, Min(i + cfg.batch_size, n))
        batch_texts(i) ==
            [k \in DOMAIN batch_hashes(i) |-> texts[IndexOf(hashes, batch_hashes(i)[k])]]
        starts == BatchStarts(n, cfg.batch_size)
        model_batches ==
            [b \in 1..Cardinality(starts) |-> batch_texts((b - 1) * cfg.batch_size)]
        new_embeddings ==
            [h \in SeqToSet(hashes_to_embed) |->
                ModelEncode(texts[IndexOf(hashes, h)])]
        written ==
            IF cfg.enable_local_cache THEN Merge(cache, new_embeddings) ELSE cache
        embeddings ==
            [i \in DOMAIN hashes |->
                IF hashes[i] \in DOMAIN existing_embeddings
                THEN existing_embeddings[hashes[i]]
                ELSE IF hashes[i] \in DOMAIN cached_embeddings
                     THEN cached_embeddings[hashes[i]]
                     ELSE new_embeddings[hashes[i]]]
        raise(e, batches) ==
            [exc |-> e, hashes |-> <<>>, vectors |-> <<>>, cache |-> cache,
             model_batches |-> batches]
    IN  IF existing.exc # NoExc THEN raise(existing.exc, <<>>)
        ELSE IF n > 0 /\ embed(batch_texts(0), fault).exc # NoExc
             THEN raise(embed(batch_texts(0), fault).exc, <<batch_texts(0)>>)
        ELSE IF embeddings = <<>>
             THEN [exc |-> Exc("ValueError", "need at least one array to stack"),
                   hashes |-> <<>>, vectors |-> <<>>, cache |-> written,
                   model_batches |-> model_batches]
        ELSE [exc |-> NoExc, hashes |-> hashes, vectors |-> embeddings,
              cache |-> written, model_batches |-> model_batches]

----------------------------------------------------------------------------
(* Call records *)

\* what `last` holds: the call, its arguments, and what it did and returned
NoCall ==
    [op |-> "none", initialized_at_call |-> FALSE,
     text |-> <<>>, metadata |-> EmptyMap,
     skip_existing |-> TRUE, force_reindex |-> FALSE, fault |-> "none",
     raised |-> NoExc, returned |-> FALSE,
     doc_id |-> NoDocId, status |-> "none", message |-> "",
     chunks_total |-> 0, chunks_indexed |-> 0,
     chunks |-> <<>>, payloads |-> <<>>,
     steps |-> <<>>, model_batches |-> <<>>, points_before |-> 0,
     texts |-> <<>>, hashes |-> <<>>, vectors |-> <<>>,
     top_k |-> 0, hits |-> 0, cache_size |-> 0]

\* what `prev` keeps of the call before `last`: how it ended, whether it ran
\* with skip_existing=True, force_reindex=False and no external failure
\* (`plain`), and whether `last` is the same operation on the same arguments
Summary(r, same_args) ==
    [op |-> r.op, same_args |-> same_args,
     initialized_at_call |-> r.initialized_at_call,
     plain |-> r.skip_existing /\ ~r.force_reindex /\ r.fault = "none",
     raised |-> r.raised, returned |-> r.returned, status |-> r.status,
     chunks_total |-> r.chunks_total, chunks_indexed |-> r.chunks_indexed,
     points_before |-> r.points_before, vectors |-> r.vectors]

----------------------------------------------------------------------------
(* vectorize/vector_index.py *)

assert_initialized_silent(is_initialized) == NoExc

\* VectorIndex.assert_initialized: the exception it raises, NoExc when it
\* returns True
assert_initialized(is_initialized) ==
    IF ~is_initialized
    THEN Exc("RuntimeError", "VectorIndex nao inicializado. Chame initialize() antes de usar.")
    ELSE NoExc

\* a method call on a component attribute that is still None
NoneTypeError(method) ==
    Exc("AttributeError", "'NoneType' object has no attribute '" \o method \o "'")

\* the positional arguments of the call `self.embedder.embed_with_cache(chunks)`
EmbedCallArgs == <<"texts">>

\* the parameters `embed_with_cache(self, texts, vector_store)` declares after self
EmbedCallParams == <<"texts", "vector_store">>

\* payloads of index_document: reserved fields first, then **metadata
no_chunks_never(chunks) == FALSE

\* `if not chunks`
no_chunks(chunks) == chunks = <<>>

build_payloads(doc_id, chunks, metadata) ==
    [idx \in DOMAIN chunks |->
        Merge([doc_id |-> doc_id, chunk_id |-> idx - 1, chunk_text |-> chunks[idx]],
              metadata)]

\* the try block of index_document, from chunking to the final return
before_upsert_dropping(res, s, cache) ==
    [res |-> res, store |-> {}, cache |-> cache, points |-> <<>>]

\* a return or raise of index_document ahead of vector_store.upsert: the
\* collection is as the call found it and no point was sent
before_upsert(res, s, cache) ==
    [res |-> res, store |-> s, cache |-> cache, points |-> <<>>]

index_try(call, doc_id, metadata, fault) ==
    LET failed(e, steps) ==
            before_upsert([call EXCEPT !.status = "failed",
                                       !.message = e.class \o ": " \o e.msg,
                                       !.steps = call.steps \o steps],
                          store, local_cache)
        skipped(msg, total, steps) ==
            before_upsert([call EXCEPT !.status = "skipped", !.message = msg,
                                       !.chunks_total = total,
                                       !.steps = call.steps \o steps],
                          store, local_cache)
        chunks == chunk(call.text, config)
        payloads == build_payloads(doc_id, chunks, metadata)
        emb == embed_with_cache(chunks, store, local_cache, config, fault)
        n == Min(Len(emb.hashes), Min(Len(emb.vectors), Len(payloads)))
        points == [i \in 1..n |->
                    [id |-> emb.hashes[i], vector |-> emb.vectors[i],
                     payload |-> payloads[i]]]
    IN  IF "chunker" \notin components THEN failed(NoneTypeError("chunk"), <<>>)
        ELSE IF fault = "tokenizer" THEN failed(TokenizerError, <<"chunk">>)
        ELSE IF no_chunks(chunks) THEN skipped("Chunking returned empty", 0, <<"chunk">>)
        ELSE IF "embedder" \notin components
             THEN [failed(NoneTypeError("embed_with_cache"), <<"chunk">>)
                     EXCEPT !.res.chunks = chunks, !.res.payloads = payloads]
        ELSE IF Len(EmbedCallArgs) # Len(EmbedCallParams)
             THEN [failed(Exc("TypeError",
                              "Embedder.embed_with_cache() missing 1 required positional argument: 'vector_store'"),
                          <<"chunk">>)
                     EXCEPT !.res.chunks = chunks, !.res.payloads = payloads]
        ELSE IF emb.exc # NoExc
             THEN [failed(emb.exc, <<"chunk", "embed_with_cache">>)
                     EXCEPT !.res.chunks = chunks, !.res.payloads = payloads,
                            !.res.model_batches = emb.model_batches,
                            !.cache = emb.cache]
        ELSE IF points = <<>>
             THEN [skipped("No points to upsert", Len(chunks),
                           <<"chunk", "embed_with_cache">>)
                     EXCEPT !.res.chunks = chunks, !.res.payloads = payloads,
                            !.res.model_batches = emb.model_batches,
                            !.cache = emb.cache]
        ELSE IF fault = "store"
             THEN [failed(StoreError, <<"chunk", "embed_with_cache", "upsert">>)
                     EXCEPT !.res.chunks = chunks, !.res.payloads = payloads,
                            !.res.model_batches = emb.model_batches,
                            !.cache = emb.cache]
        ELSE [res |-> [call EXCEPT !.status = "indexed",
                                   !.message = "Document indexed successfully",
                                   !.chunks_total = Len(chunks),
                                   !.chunks_indexed = Len(points),
                                   !.chunks = chunks, !.payloads = payloads,
                                   !.model_batches = emb.model_batches,
                                   !.steps = call.steps \o
                                             <<"chunk", "embed_with_cache", "upsert">>],
              store |-> upsert(store, points), cache |-> emb.cache,
              points |-> points]

\* VectorIndex.index_document: the call record, and the store and the local
\* cache it leaves
index_document(text, metadata, skip_existing, force_reindex, fault) ==
    LET call == [NoCall EXCEPT !.op = "index_document",
                               !.initialized_at_call = initialized,
                               !.text = text, !.metadata = metadata,
                               !.skip_existing = skip_existing,
                               !.force_reindex = force_reindex,
                               !.fault = fault,
                               !.points_before = Cardinality(store)]
        unchanged(r) == before_upsert(r, store, local_cache)
        doc_id == hash_document(text)
        probe == skip_existing /\ ~force_reindex
        chunks_found == document_exists(store, doc_id, metadata)
        probed == [call EXCEPT !.doc_id = doc_id,
                               !.steps = IF probe THEN <<"probe">> ELSE <<>>]
    IN  IF assert_initialized(initialized) # NoExc
        THEN unchanged([NoCall EXCEPT !.op = "index_document",
                                      !.raised = assert_initialized(initialized)])
        ELSE IF IsBlank(text)
        THEN unchanged([call EXCEPT !.status = "skipped",
                                    !.message = "Empty or whitespace-only text"])
        ELSE IF probe /\ "vector_store" \notin components
        THEN unchanged([call EXCEPT !.doc_id = doc_id,
                                    !.raised = NoneTypeError("document_exists")])
        ELSE IF probe /\ fault = "store"
        THEN unchanged([probed EXCEPT !.raised = StoreError])
        ELSE IF probe /\ chunks_found > 0
        THEN unchanged([probed EXCEPT !.status = "skipped",
                                      !.message = "Document already indexed",
                                      !.chunks_indexed = chunks_found])
        ELSE index_try(probed, doc_id, metadata, fault)

\* VectorIndex.search: embed the query as a single-item batch, then query_search
search(query, top_k, fault) ==
    LET call == [NoCall EXCEPT !.op = "search",
                               !.initialized_at_call = initialized,
                               !.text = query, !.top_k = top_k, !.fault = fault,
                               !.points_before = Cardinality(store)]
        query_emb == embed(<<query>>, fault)
    IN  IF assert_initialized(initialized) # NoExc
        THEN [NoCall EXCEPT !.op = "search",
                            !.raised = assert_initialized(initialized)]
        ELSE IF "embedder" \notin components
        THEN [call EXCEPT !.raised = NoneTypeError("embed")]
        ELSE IF query_emb.exc # NoExc
        THEN [call EXCEPT !.raised = query_emb.exc, !.steps = <<"embed">>,
                          !.model_batches = <<<<query>>>>]
        ELSE IF "vector_store" \notin components
        THEN [call EXCEPT !.raised = NoneTypeError("query_search"),
                          !.steps = <<"embed">>, !.model_batches = <<<<query>>>>]
        ELSE IF fault = "store"
        THEN [call EXCEPT !.raised = StoreError,
                          !.steps = <<"embed", "query_search">>,
                          !.model_batches = <<<<query>>>>]
        ELSE [call EXCEPT !.returned = TRUE,
                          !.steps = <<"embed", "query_search">>,
                          !.model_batches = <<<<query>>>>,
                          !.vectors = query_emb.vectors,
                          !.hits = query_search_count(store, top_k)]

----------------------------------------------------------------------------
(* History of upserts *)

RECURSIVE RecordUpserts(_, _)
RecordUpserts(h, points) ==
    IF points = <<>> THEN h
    ELSE RecordUpserts(Put(h, Head(points).id, Head(points)), Tail(points))

----------------------------------------------------------------------------
(* Operations on a VectorIndex *)

\* no Chunker constructed on its own, no chunk call in progress
NoChunking ==
    [pc |-> "new", chunk_size |-> 0, overlap |-> 0, text |-> <<>>, offsets |-> <<>>,
     start |-> 0, iterations |-> 0, visited |-> <<>>, chunks |-> <<>>]

\* no run of build_index
NoBuild ==
    [pc |-> "idle", dataset |-> <<>>, batch_size |-> 0, next |-> 1,
     doc_count |-> 0, indexed_doc_count |-> 0, skipped_doc_count |-> 0,
     error_doc_count |-> 0, indexed_chunk_count |-> 0, calls |-> <<>>,
     cache_checks |-> 0, cache_clears |-> 0, raised |-> NoExc]

Init ==
    /\ initialized = FALSE
    /\ config = NoConfig
    /\ components = {}
    /\ store = {}
    /\ local_cache = EmptyMap
    /\ upserted = EmptyMap
    /\ last = NoCall
    /\ prev = Summary(NoCall, FALSE)
    /\ chunking = NoChunking
    /\ build = NoBuild

\* the constructor initialize is in when it raises; "none" when none raises
InitFailures == {"none", "chunker", "embedder", "vector_store"}

Constructed(failAt) ==
    IF failAt = "chunker" THEN {}
    ELSE IF failAt = "embedder" THEN {"chunker"}
    ELSE IF failAt = "vector_store" THEN {"chunker", "embedder"}
    ELSE {"chunker", "embedder", "vector_store"}

already_initialized_never(is_initialized) == FALSE

\* initialize's first statement: an initialized index returns at once
already_initialized(is_initialized) == is_initialized

Initialize ==
    \E cfg \in Configs, failAt \in InitFailures :
        LET call == [NoCall EXCEPT !.op = "initialize",
                                   !.initialized_at_call = initialized]
        IN  /\ IF already_initialized(initialized)
               THEN /\ UNCHANGED <<initialized, config, components>>
                    /\ last' = [call EXCEPT !.returned = TRUE]
               ELSE /\ config' = cfg
                    /\ components' = components \cup Constructed(failAt)
                    /\ initialized' = (failAt = "none")
                    /\ last' = [call EXCEPT
                                  !.fault = failAt,
                                  !.returned = (failAt = "none"),
                                  !.raised = IF failAt = "none" THEN NoExc
                                             ELSE Exc("ConstructionError", failAt)]
            /\ prev' = Summary(last, last.op = "initialize")
            /\ UNCHANGED <<store, local_cache, upserted,
                         chunking, build>>

AssertInitialized ==
    /\ last' = [NoCall EXCEPT !.op = "assert_initialized",
                              !.initialized_at_call = initialized,
                              !.raised = assert_initialized(initialized),
                              !.returned = (assert_initialized(initialized) = NoExc)]
    /\ prev' = Summary(last, last.op = "assert_initialized")
    /\ UNCHANGED <<initialized, config, components, store, local_cache, upserted,
                         chunking, build>>

\* one index_document call and what it leaves behind
IndexDocumentCall(text, metadata, skip_existing, force_reindex, fault) ==
    \E r \in {index_document(text, metadata, skip_existing, force_reindex, fault)} :
        /\ last' = r.res
        /\ store' = r.store
        /\ local_cache' = r.cache
        /\ upserted' = RecordUpserts(upserted, r.points)
        /\ prev' = Summary(last, /\ last.op = "index_document"
                                  /\ last.text = text
                                  /\ last.metadata = metadata)
        /\ UNCHANGED <<initialized, config, components,
                     chunking, build>>

IndexDocument ==
    \E text \in Documents, metadata \in Metadatas,
       skip_existing \in BOOLEAN, force_reindex \in BOOLEAN, fault \in IndexFaults :
        /\ IndexDocumentCall(text, metadata, skip_existing, force_reindex, fault)

\* one search call
SearchCall(query, top_k, fault) ==
    /\ last' = search(query, top_k, fault)
    /\ prev' = Summary(last, last.op = "search" /\ last.text = query)
    /\ UNCHANGED <<initialized, config, components, store, local_cache, upserted,
                     chunking, build>>

Search ==
    \E query \in Documents, top_k \in 1..MaxTopK, fault \in EmbedFaults :
        /\ SearchCall(query, top_k, fault)

Next == Initialize \/ AssertInitialized \/ IndexDocument \/ Search

Spec == Init /\ [][Next]_vars

----------------------------------------------------------------------------
(* Operations called directly on the Embedder and the VectorStore of an     *)
(* initialized VectorIndex                                                  *)

\* texts as the chunker yields them from Documents: non-empty, not blank
EmbedTexts == {<<"a">>, <<"a", "a">>}

\* a vector that no text embeds to
StaleVector == <<0, 0>>

\* two points under the hash of t: the computed vector with the bare payload,
\* and another vector with a payload that carries caller metadata
PointsFor(t) ==
    LET reserved == [doc_id |-> hash_document(t), chunk_id |-> 0, chunk_text |-> t]
    IN  {[id |-> text_hash(t), vector |-> ModelEncode(t), payload |-> reserved],
         [id |-> text_hash(t), vector |-> StaleVector,
          payload |-> Merge(reserved, [source |-> "unit-test"])]}

PointPool == UNION {PointsFor(t) : t \in EmbedTexts}

InitComponents ==
    /\ initialized = TRUE
    /\ config \in Configs
    /\ components = {"chunker", "embedder", "vector_store"}
    /\ store = {}
    /\ local_cache = EmptyMap
    /\ upserted = EmptyMap
    /\ last = NoCall
    /\ prev = Summary(NoCall, FALSE)
    /\ chunking = NoChunking
    /\ build = NoBuild

Upsert ==
    \E points \in SeqsUpTo(PointPool, MaxBatch) \ {<<>>} :
        /\ store' = upsert(store, points)
        /\ upserted' = RecordUpserts(upserted, points)
        /\ last' = [NoCall EXCEPT !.op = "upsert", !.initialized_at_call = initialized,
                                  !.returned = TRUE,
                                  !.points_before = Cardinality(store)]
        /\ prev' = Summary(last, FALSE)
        /\ UNCHANGED <<initialized, config, components, local_cache,
                         chunking, build>>

EmbedWithCache ==
    \E texts \in SeqsUpTo(EmbedTexts, MaxTexts), fault \in EmbedFaults :
        \E r \in {embed_with_cache(texts, store, local_cache, config, fault)} :
            /\ last' = [NoCall EXCEPT !.op = "embed_with_cache",
                                      !.initialized_at_call = initialized,
                                      !.texts = texts, !.fault = fault,
                                      !.raised = r.exc,
                                      !.returned = (r.exc = NoExc),
                                      !.hashes = r.hashes, !.vectors = r.vectors,
                                      !.model_batches = r.model_batches,
                                      !.points_before = Cardinality(store)]
            /\ local_cache' = r.cache
            /\ prev' = Summary(last, last.op = "embed_with_cache" /\ last.texts = texts)
            /\ UNCHANGED <<initialized, config, components, store, upserted,
                         chunking, build>>

NextComponents == Upsert \/ EmbedWithCache

SpecComponents == InitComponents /\ [][NextComponents]_vars

\* An initialized VectorIndex opened over a collection that is already on
\* disk: VectorStore creates the collection only when it is absent, so the
\* points of earlier upsert calls are there when the index starts
StoredBatches ==
    {<<>>}
      \cup {<<p>> : p \in PointsFor(<<"a">>)}
      \cup {<<p, q>> : p \in PointsFor(<<"a">>), q \in PointsFor(<<"a", "a">>)}

InitStored ==
    /\ initialized = TRUE
    /\ config \in Configs
    /\ components = {"chunker", "embedder", "vector_store"}
    /\ \E points \in StoredBatches :
          /\ store = upsert({}, points)
          /\ upserted = RecordUpserts(EmptyMap, points)
    /\ local_cache = EmptyMap
    /\ last = NoCall
    /\ prev = Summary(NoCall, FALSE)
    /\ chunking = NoChunking
    /\ build = NoBuild

\* a blank document, the stored document, and one that is not stored
StoredDocuments == {<<" ">>, <<"a">>, <<"nl", "a">>}

StoredMetadatas == {EmptyMap, [source |-> "unit-test"]}

IndexStored ==
    \E text \in StoredDocuments, metadata \in StoredMetadatas,
       skip_existing \in BOOLEAN, force_reindex \in BOOLEAN, fault \in IndexFaults :
        /\ IndexDocumentCall(text, metadata, skip_existing, force_reindex, fault)

SearchStored ==
    \E query \in StoredDocuments, top_k \in 1..MaxTopK, fault \in EmbedFaults :
        /\ SearchCall(query, top_k, fault)

NextStored == IndexStored \/ SearchStored

SpecStored == InitStored /\ [][NextStored]_vars

----------------------------------------------------------------------------
(* A Chunker on its own: ChunkerConfig, Chunker.__init__ and the loop of    *)
(* Chunker.chunk, one iteration per step                                    *)

\* the worked example: a text of 25 tokens under chunk_size=10, overlap=3
ExampleTokens == 25

ExampleChunkSize == 10

ExampleOverlap == 3

ExampleText == [i \in 1..ExampleTokens |-> "a"]

ChunkSizes == (-1..MaxChunkSize) \cup {ExampleChunkSize}

Overlaps == (-1..MaxChunkSize) \cup {ExampleOverlap}

ChunkTexts == SeqsUpTo(Chars, MaxTextLen) \cup {ExampleText}

\* ChunkerConfig(chunk_size, overlap), then Chunker(model_config, config)
ConstructChunker ==
    /\ chunking.pc = "new"
    /\ \E chunk_size \in ChunkSizes, overlap \in Overlaps :
          chunking' = [chunking EXCEPT
                         !.pc = IF ChunkerConfigValid(chunk_size, overlap)
                                THEN "configured" ELSE "value_error",
                         !.chunk_size = chunk_size, !.overlap = overlap]
    /\ UNCHANGED <<initialized, config, components, store, local_cache, upserted,
                   last, prev, build>>

\* Chunker.chunk up to the loop: the early returns and the tokenizer call
ChunkCall ==
    /\ chunking.pc = "configured"
    /\ \E text \in ChunkTexts :
          LET offsets == Tokenize(text)
              call == [chunking EXCEPT !.text = text]
          IN  chunking' =
                IF IsBlank(text) THEN [call EXCEPT !.pc = "returned"]
                ELSE IF offsets = <<>> THEN [call EXCEPT !.pc = "returned"]
                ELSE [call EXCEPT !.pc = "loop", !.offsets = offsets, !.start = 0]
    /\ UNCHANGED <<initialized, config, components, store, local_cache, upserted,
                   last, prev, build>>

\* one iteration of the while loop
ChunkIterate ==
    /\ chunking.pc = "loop"
    /\ loop_continues(chunking.start, Len(chunking.offsets))
    /\ LET sl == chunk_slice(chunking.text, chunking.offsets, chunking.start,
                             chunking.chunk_size)
       IN  chunking' = [chunking EXCEPT
                          !.iterations = @ + 1,
                          !.visited = Append(@, [start |-> sl.start, end |-> sl.end,
                                                 piece |-> sl.piece,
                                                 kept |-> keep_chunk(sl.piece)]),
                          !.chunks = IF keep_chunk(sl.piece) THEN Append(@, sl.piece)
                                     ELSE @,
                          !.start = next_start(@, chunking.chunk_size,
                                               chunking.overlap)]
    /\ UNCHANGED <<initialized, config, components, store, local_cache, upserted,
                   last, prev, build>>

\* the loop condition fails: return chunks
ChunkReturn ==
    /\ chunking.pc = "loop"
    /\ ~loop_continues(chunking.start, Len(chunking.offsets))
    /\ chunking' = [chunking EXCEPT !.pc = "returned"]
    /\ UNCHANGED <<initialized, config, components, store, local_cache, upserted,
                   last, prev, build>>

NextChunk == ConstructChunker \/ ChunkCall \/ ChunkIterate \/ ChunkReturn

\* the interpreter keeps executing a loop that has started
SpecChunk == Init /\ [][NextChunk]_vars /\ WF_vars(ChunkIterate \/ ChunkReturn)

\* chunk_decode: the values of range(0, n, step) from i on
RECURSIVE range_from(_, _, _)
range_from(i, n, step) ==
    IF i < n THEN <<i>> \o range_from(i + step, n, step) ELSE <<>>

----------------------------------------------------------------------------
(* scripts/build_index.py: one document of the dataset per step *)

\* the text column of a dataset
Datasets == SeqsUpTo(Documents, MaxDocs)

\* keyword arguments of the index_document call in build_index
IndexCallKwargs == {"doc_id", "text", "metadata", "options"}

\* parameters of VectorIndex.index_document
IndexDocumentParams == {"text", "metadata", "skip_existing", "force_reindex"}

\* attributes Embedder.__init__ sets
EmbedderAttributes(cfg) ==
    {"model", "batch_size", "enable_local_cache"}
        \cup (IF cfg.enable_local_cache THEN {"local_cache_dir"} ELSE {})

\* EmbedderConfig.cache_limit_size, in cache entries
CacheLimitSize == 1

\* Embedder.get_cache_size, in cache entries (one file per hash)
get_cache_size(cache) == Cardinality(DOMAIN cache)

\* build_index up to the loop: initialize the index, load the dataset, zero
\* the counters
InitBuild ==
    /\ initialized = TRUE
    /\ config \in Configs
    /\ components = {"chunker", "embedder", "vector_store"}
    /\ store = {}
    /\ local_cache = EmptyMap
    /\ upserted = EmptyMap
    /\ last = NoCall
    /\ prev = Summary(NoCall, FALSE)
    /\ chunking = NoChunking
    /\ \E dataset \in Datasets, batch_size \in 1..MaxIndexingBatch :
          build = [NoBuild EXCEPT !.pc = "running", !.dataset = dataset,
                                  !.batch_size = batch_size]

\* the counters after a result
count_result(b, res) ==
    IF res.status = "indexed"
    THEN [b EXCEPT !.indexed_doc_count = @ + 1,
                   !.indexed_chunk_count = @ + res.chunks_indexed]
    ELSE IF res.status = "failed" THEN [b EXCEPT !.error_doc_count = @ + 1]
    ELSE IF res.status = "skipped" THEN [b EXCEPT !.skipped_doc_count = @ + 1]
    ELSE b

\* the end of a batch: the cache check, then doc_count
end_batch(b, cache, batch_len) ==
    IF ~config.enable_local_cache
    THEN [b |-> [b EXCEPT !.doc_count = @ + batch_len], cache |-> cache]
    ELSE IF "cache_limit_size" \notin EmbedderAttributes(config)
    THEN [b |-> [b EXCEPT !.pc = "raised",
                          !.raised = Exc("AttributeError",
                                         "'Embedder' object has no attribute 'cache_limit_size'")],
          cache |-> cache]
    ELSE IF get_cache_size(cache) > CacheLimitSize
    THEN [b |-> [b EXCEPT !.doc_count = @ + batch_len, !.cache_checks = @ + 1,
                          !.cache_clears = @ + 1],
          cache |-> EmptyMap]
    ELSE [b |-> [b EXCEPT !.doc_count = @ + batch_len, !.cache_checks = @ + 1],
          cache |-> cache]

\* the body of the inner loop for the next document, and the end of the
\* batch when the document is the last one of its batch
BuildDocument ==
    /\ build.pc = "running"
    /\ build.next <= Len(build.dataset)
    /\ IF ~(IndexCallKwargs \subseteq IndexDocumentParams)
       THEN /\ build' = [build EXCEPT
                           !.pc = "raised",
                           !.raised = Exc("TypeError",
                                          "VectorIndex.index_document() got an unexpected keyword argument 'doc_id'")]
            /\ UNCHANGED <<store, local_cache, upserted, last, prev>>
       ELSE \E fault \in IndexFaults :
              \E r \in {index_document(build.dataset[build.next], EmptyMap,
                                        TRUE, FALSE, fault)} :
                \E counted \in {count_result([build EXCEPT
                                                !.calls = Append(@, r.res.text),
                                                !.next = @ + 1], r.res)} :
                  /\ last' = r.res
                  /\ prev' = Summary(last, FALSE)
                  /\ store' = r.store
                  /\ upserted' = RecordUpserts(upserted, r.points)
                  /\ IF r.res.raised # NoExc
                     THEN /\ build' = [counted EXCEPT !.pc = "raised",
                                                      !.raised = r.res.raised]
                          /\ local_cache' = r.cache
                     ELSE IF \/ build.next % build.batch_size = 0
                             \/ build.next = Len(build.dataset)
                     THEN \E ended \in {end_batch(counted, r.cache,
                                                   build.next - build.doc_count)} :
                            build' = ended.b /\ local_cache' = ended.cache
                     ELSE build' = counted /\ local_cache' = r.cache
    /\ UNCHANGED <<initialized, config, components, chunking>>

\* the dataset is exhausted: log the totals and return
BuildFinish ==
    /\ build.pc = "running"
    /\ build.next > Len(build.dataset)
    /\ build' = [build EXCEPT !.pc = "done"]
    /\ UNCHANGED <<initialized, config, components, store, local_cache, upserted,
                   last, prev, chunking>>

NextBuild == BuildDocument \/ BuildFinish

SpecBuild == InitBuild /\ [][NextBuild]_vars

----------------------------------------------------------------------------
(* vectorize/embed.py: the local cache directory of one Embedder, one file  *)
(* per content hash                                                         *)

\* reading self.local_cache_dir on an Embedder whose __init__ did not set it
local_cache_dir_unset(cfg) ==
    IF "local_cache_dir" \in EmbedderAttributes(cfg) THEN NoExc
    ELSE Exc("AttributeError", "'Embedder' object has no attribute 'local_cache_dir'")

\* Embedder._cache_embeddings_locally(hashes, embeddings)
cache_embeddings_locally(cache, hashes, embeddings) ==
    Merge(cache, [h \in SeqToSet(hashes) |->
                     embeddings[CHOOSE i \in DOMAIN hashes :
                                   /\ hashes[i] = h
                                   /\ \A j \in (i + 1)..Len(hashes) : hashes[j] # h]])

\* Embedder.clear_cached_embedding(text_hash): os.remove of the one file
clear_cached_embedding(cache, h) ==
    [k \in DOMAIN cache \ {h} |-> cache[k]]

\* hashes given to clear_cached_embedding: those of EmbedTexts and one of no text
CacheHashes == {text_hash(t) : t \in EmbedTexts} \cup {0}

InitCache ==
    /\ initialized = TRUE
    /\ config \in Configs
    /\ components = {"chunker", "embedder", "vector_store"}
    /\ store = {}
    /\ local_cache = EmptyMap
    /\ upserted = EmptyMap
    /\ last = NoCall
    /\ prev = Summary(NoCall, FALSE)
    /\ chunking = NoChunking
    /\ build = NoBuild

CacheCall(op, exc) ==
    [NoCall EXCEPT !.op = op, !.initialized_at_call = initialized,
                   !.raised = exc, !.returned = (exc = NoExc)]

CacheEmbeddingsLocally ==
    \E texts \in SeqsUpTo(EmbedTexts, MaxTexts) \ {<<>>} :
        \E exc \in {local_cache_dir_unset(config)},
           hashes \in {[i \in DOMAIN texts |-> text_hash(texts[i])]} :
            /\ last' = [CacheCall("_cache_embeddings_locally", exc)
                           EXCEPT !.texts = texts, !.hashes = hashes]
            /\ local_cache' =
                  IF exc # NoExc THEN local_cache
                  ELSE cache_embeddings_locally(local_cache, hashes,
                                                embed(texts, "none").vectors)
            /\ prev' = Summary(last, FALSE)
            /\ UNCHANGED <<initialized, config, components, store, upserted,
                         chunking, build>>

ClearLocalCache ==
    \E exc \in {local_cache_dir_unset(config)} :
        /\ last' = CacheCall("clear_local_cache", exc)
        /\ local_cache' = IF exc # NoExc THEN local_cache ELSE EmptyMap
        /\ prev' = Summary(last, FALSE)
        /\ UNCHANGED <<initialized, config, components, store, upserted,
                     chunking, build>>

ClearCachedEmbedding ==
    \E h \in CacheHashes :
        \E exc \in {local_cache_dir_unset(config)} :
            /\ last' = [CacheCall("clear_cached_embedding", exc)
                           EXCEPT !.hashes = <<h>>]
            /\ local_cache' = IF exc # NoExc THEN local_cache
                               ELSE clear_cached_embedding(local_cache, h)
            /\ prev' = Summary(last, FALSE)
            /\ UNCHANGED <<initialized, config, components, store, upserted,
                         chunking, build>>

GetCacheSize ==
    \E exc \in {local_cache_dir_unset(config)} :
        /\ last' = [CacheCall("get_cache_size", exc)
                       EXCEPT !.cache_size = IF exc # NoExc THEN 0
                                             ELSE get_cache_size(local_cache)]
        /\ prev' = Summary(last, FALSE)
        /\ UNCHANGED <<initialized, config, components, store, local_cache,
                     upserted, chunking, build>>

NextCache ==
    CacheEmbeddingsLocally \/ ClearLocalCache \/ ClearCachedEmbedding \/ GetCacheSize

SpecCache == InitCache /\ [][NextCache]_vars

----------------------------------------------------------------------------
(* Properties *)

\* `last` and `prev` are two index_document calls in a row on an initialized
\* index, for the same non-blank text and the same metadata, both with
\* skip_existing=True, force_reindex=False and no external failure
ReindexedPlainly ==
    /\ last.op = "index_document" /\ prev.op = "index_document"
    /\ last.initialized_at_call /\ prev.initialized_at_call
    /\ prev.same_args
    /\ ~IsBlank(last.text)
    /\ last.skip_existing /\ ~last.force_reindex /\ last.fault = "none"
    /\ prev.plain

\* C1: indexing the same non-blank text with the same metadata twice, both
\* times with skip_existing=True and force_reindex=False, starting from an
\* empty store, returns 'indexed' the first time and 'skipped' the second.
C1_IndexedThenSkipped ==
    (ReindexedPlainly /\ prev.points_before = 0)
        => (prev.status = "indexed" /\ last.status = "skipped")

\* the exceptions the model raises inside index_document's try block
CaughtExceptions ==
    {StoreError, TokenizerError, ModelError,
     NoneTypeError("chunk"), NoneTypeError("embed_with_cache"),
     Exc("TypeError",
         "Embedder.embed_with_cache() missing 1 required positional argument: 'vector_store'"),
     Exc("AttributeError", "'VectorStore' object has no attribute 'search_by_id'"),
     Exc("ValueError", "need at least one array to stack")}

\* C2: on an initialized index index_document never raises: every call
\* returns an IndexResult, and an exception of the chunker, the embedder or
\* the store (the already-indexed probe included) becomes status 'failed'
\* with message '<exception class name>: <exception message>'.
C2_NeverRaises ==
    (last.op = "index_document" /\ last.initialized_at_call)
        => /\ last.raised = NoExc
           /\ last.status \in {"indexed", "skipped", "failed"}
           /\ last.status = "failed"
                 => \E e \in CaughtExceptions : last.message = e.class \o ": " \o e.msg

\* C3: two calls in a row of embed_with_cache([text], store) return the same
\* vector, and the second one does not invoke the embedding model.
C3_SecondCallCached ==
    (/\ last.op = "embed_with_cache" /\ prev.op = "embed_with_cache"
     /\ prev.same_args /\ Len(last.texts) = 1
     /\ last.fault = "none" /\ prev.plain)
        => /\ prev.raised = NoExc /\ last.raised = NoExc
           /\ last.vectors = prev.vectors
           /\ last.model_batches = <<>>

\* the vector the three tiers resolve a text to, after the call: the stored
\* vector of the point whose id is the hash, else the cache entry under the
\* hash when local caching is on, else the freshly computed vector
Resolved(text) ==
    LET h == text_hash(text)
    IN  IF h \in StoreIds(store) THEN (CHOOSE p \in store : p.id = h).vector
        ELSE IF config.enable_local_cache /\ h \in DOMAIN local_cache
             THEN local_cache[h]
             ELSE ModelEncode(text)

\* C4: embed_with_cache resolves every input text by the first matching tier
\* (store, then local cache, then embed), writes a computed vector to the
\* local cache when caching is on, and sends to the model only texts that no
\* tier resolved.
C4_TierOrder ==
    (last.op = "embed_with_cache" /\ last.fault = "none" /\ last.texts # <<>>)
        => /\ last.raised = NoExc
           /\ \A i \in DOMAIN last.texts :
                /\ last.vectors[i] = Resolved(last.texts[i])
                /\ (config.enable_local_cache
                      /\ text_hash(last.texts[i]) \notin StoreIds(store))
                     => text_hash(last.texts[i]) \in DOMAIN local_cache
           /\ \A b \in DOMAIN last.model_batches :
                \A k \in DOMAIN last.model_batches[b] :
                    text_hash(last.model_batches[b][k]) \notin StoreIds(store)

\* C5: for every list of texts embed_with_cache returns hashes and vectors as
\* long as the list, position i holding the content hash of texts[i] and a
\* vector of texts[i].
C5_OrderPreserved ==
    (last.op = "embed_with_cache" /\ last.fault = "none")
        => /\ last.raised = NoExc
           /\ Len(last.hashes) = Len(last.texts)
           /\ Len(last.vectors) = Len(last.texts)
           /\ \A i \in DOMAIN last.texts :
                /\ last.hashes[i] = text_hash(last.texts[i])
                /\ last.vectors[i] \in
                     {ModelEncode(last.texts[i])}
                       \cup {p.vector : p \in search_by_ids(store, {last.hashes[i]})}

\* C6: after any sequence of upsert calls the store holds exactly one point
\* per id ever upserted, that point is the one most recently upserted under
\* the id, and upserting a point twice leaves the store as upserting it once.
C6_UpsertIdempotent ==
    /\ StoreIds(store) = DOMAIN upserted
    /\ Cardinality(store) = Cardinality(DOMAIN upserted)
    /\ \A id \in DOMAIN upserted : {p \in store : p.id = id} = {upserted[id]}
    /\ \A p \in PointPool :
          upsert(upsert(store, <<p>>), <<p>>) = upsert(store, <<p>>)

\* two upsert calls in a row, the second overwriting: the store holds points
\* and the last upsert added none
C6_Witness ==
    /\ last.op = "upsert" /\ prev.op = "upsert"
    /\ last.points_before > 0
    /\ Cardinality(store) = last.points_before

\* C7: in every payload index_document builds, doc_id is the document's
\* content hash, chunk_id the chunk's ordinal and chunk_text the chunk's
\* text, whatever keys the caller's metadata holds.
C7_ReservedKeysKept ==
    (last.op = "index_document")
        => \A i \in DOMAIN last.payloads :
              /\ last.payloads[i].doc_id = hash_document(last.text)
              /\ last.payloads[i].chunk_id = i - 1
              /\ last.payloads[i].chunk_text = last.chunks[i]

C10_FailFast ==
    /\ (~initialized /\ last.op \in {"index_document", "search"})
          => /\ last.raised.class = "RuntimeError"
             /\ last.steps = <<>>
             /\ last.model_batches = <<>>
             /\ last.status = "none"
    /\ (~initialized /\ last.op = "assert_initialized")
          => last.raised.class = "RuntimeError" /\ ~last.returned
    /\ (initialized /\ last.op = "assert_initialized")
          => last.raised = NoExc /\ last.returned

\* index_document was called after an initialize that raised part-way
C10_Witness ==
    /\ ~initialized
    /\ components # {}
    /\ last.op = "index_document"
    /\ last.raised.class = "RuntimeError"

\* C11: for every empty or whitespace-only text, index_document on an
\* initialized index returns status 'skipped' with a non-empty message,
\* whatever skip_existing and force_reindex are, and neither probes the
\* store nor chunks, embeds or upserts.
C11_BlankSkipped ==
    (/\ last.op = "index_document" /\ last.initialized_at_call
     /\ \A i \in DOMAIN last.text : last.text[i] \in Whitespace)
        => /\ last.raised = NoExc
           /\ last.status = "skipped"
           /\ last.message # ""
           /\ last.steps = <<>>
           /\ last.model_batches = <<>>
           /\ last.chunks = <<>> /\ last.payloads = <<>>
           /\ Cardinality(store) = last.points_before

\* a whitespace-only text was handed over with force_reindex=True while the
\* vector database was failing
C11_Witness ==
    /\ last.op = "index_document" /\ last.initialized_at_call
    /\ last.text = <<" ">>
    /\ last.force_reindex /\ last.fault = "store"
    /\ last.status = "skipped"

\* the tokens the loop of the chunk call runs over, the step between two
\* starts, and the starts visited so far
ChunkTokens == Len(chunking.offsets)

ChunkStep == chunking.chunk_size - chunking.overlap

ChunkStarts == [i \in DOMAIN chunking.visited |-> chunking.visited[i].start]

\* tokens that two spans visited one after the other have in common
SharedTokens(i) == chunking.visited[i].end - chunking.visited[i + 1].start

\* the visited starts are 0, s, 2s, ... below N, in that order; the span at
\* start is [start, min(start + chunk_size, N)), at most chunk_size tokens;
\* chunk_size=10, overlap=3, N=25 gives the starts 0, 7, 14, 21
StartsAndSpans ==
    /\ SeqToSet(ChunkStarts) =
          {k * ChunkStep : k \in 0..ChunkTokens} \cap (0..(ChunkTokens - 1))
    /\ \A i \in 1..(Len(ChunkStarts) - 1) : ChunkStarts[i] < ChunkStarts[i + 1]
    /\ \A i \in DOMAIN chunking.visited :
          /\ chunking.visited[i].end =
                Min(chunking.visited[i].start + chunking.chunk_size, ChunkTokens)
          /\ chunking.visited[i].end - chunking.visited[i].start <= chunking.chunk_size
    /\ (/\ chunking.chunk_size = ExampleChunkSize
        /\ chunking.overlap = ExampleOverlap
        /\ ChunkTokens = ExampleTokens)
          => ChunkStarts = <<0, 7, 14, 21>>

\* C12 as stated: for a text of N tokens chunk visits exactly the starts
\* 0, s, 2s, ... below N with s = chunk_size - overlap, the chunk at start
\* spans [start, min(start + chunk_size, N)), and consecutive chunks share
\* overlap tokens.
C12_StartsAndOverlap ==
    chunking.pc = "returned"
        => /\ StartsAndSpans
           /\ \A i \in 1..(Len(chunking.visited) - 1) :
                 SharedTokens(i) = chunking.overlap

\* C12 amended: starts and spans as stated; consecutive chunks share
\* overlap tokens when the later one starts at least overlap tokens before
\* the end of the text, and the N - start tokens that are left otherwise.
C12_StartsAndTailOverlap ==
    chunking.pc = "returned"
        => /\ StartsAndSpans
           /\ \A i \in 1..(Len(chunking.visited) - 1) :
                 SharedTokens(i) =
                     Min(chunking.overlap,
                         ChunkTokens - chunking.visited[i + 1].start)

\* the worked example has returned
C12_Witness ==
    /\ chunking.pc = "returned"
    /\ chunking.chunk_size = ExampleChunkSize /\ chunking.overlap = ExampleOverlap
    /\ ChunkTokens = ExampleTokens
    /\ Len(chunking.visited) = 4

\* ceil(a / b) for b > 0
CeilDiv(a, b) == (a + b - 1) \div b

\* C13: with chunk_size > 0 and 0 <= overlap < chunk_size the loop over a
\* text of N tokens never runs more than ceil(N / (chunk_size - overlap))
\* iterations, has run exactly that many when chunk returns (N of them when
\* overlap = chunk_size - 1), the range of chunk_decode has as many values,
\* and a loop that has started returns.
C13_LoopTerminates ==
    /\ [](chunking.pc \in {"loop", "returned"}
            => /\ chunking.iterations <= CeilDiv(ChunkTokens, ChunkStep)
               /\ Len(range_from(0, ChunkTokens, ChunkStep))
                     = CeilDiv(ChunkTokens, ChunkStep))
    /\ [](chunking.pc = "returned"
            => /\ chunking.iterations = CeilDiv(ChunkTokens, ChunkStep)
               /\ chunking.overlap = chunking.chunk_size - 1
                     => chunking.iterations = ChunkTokens)
    /\ (chunking.pc = "loop") ~> (chunking.pc = "returned")

\* a call with overlap = chunk_size - 1 > 0 over three tokens has returned
C13_Witness ==
    /\ chunking.pc = "returned"
    /\ chunking.chunk_size > 1 /\ chunking.overlap = chunking.chunk_size - 1
    /\ ChunkTokens = 3 /\ chunking.iterations = 3

\* C15: constructing a ChunkerConfig succeeds if and only if chunk_size > 0
\* and 0 <= overlap < chunk_size, it raises ValueError otherwise, and no
\* Chunker runs with a step chunk_size - overlap that is zero or negative.
C15_ConfigValidated ==
    /\ chunking.pc = "value_error"
          <=> (/\ chunking.pc # "new"
               /\ ~(/\ chunking.chunk_size > 0
                     /\ 0 <= chunking.overlap
                     /\ chunking.overlap < chunking.chunk_size))
    /\ chunking.pc \in {"configured", "loop", "returned"} => ChunkStep > 0

\* a Chunker built with the largest overlap its chunk_size admits is in its loop
C15_Witness ==
    /\ chunking.pc = "loop"
    /\ chunking.overlap = chunking.chunk_size - 1
    /\ chunking.iterations > 0

\* C16: every slice the loop cuts is the run of characters of the text from
\* the first character of its first token to the last character of its last
\* token, chunk returns the kept slices in order, and when chunk returns
\* every token lies in at least one visited span.
C16_RoundTrip ==
    /\ \A i \in DOMAIN chunking.visited :
          LET v == chunking.visited[i]
              first == chunking.offsets[v.start + 1][1]
              last_end == chunking.offsets[v.end][2]
          IN  /\ v.start < v.end
              /\ Len(v.piece) = last_end - first
              /\ \A j \in DOMAIN v.piece : v.piece[j] = chunking.text[first + j]
    /\ chunking.chunks =
          [k \in 1..Len(chunking.chunks) |->
              SelectSeq(chunking.visited, LAMBDA v : v.kept)[k].piece]
    /\ \A i \in DOMAIN chunking.visited :
          chunking.visited[i].kept
              <=> \E j \in DOMAIN chunking.visited[i].piece :
                     chunking.visited[i].piece[j] \notin Whitespace
    /\ chunking.pc = "returned"
          => \A t \in 1..ChunkTokens :
                \E i \in DOMAIN chunking.visited :
                    chunking.visited[i].start < t /\ t <= chunking.visited[i].end

\* chunk returned two overlapping chunks, the first one enclosing a
\* character between its tokens that is no token
C16_Witness ==
    /\ chunking.pc = "returned"
    /\ Len(chunking.chunks) = 2
    /\ chunking.overlap > 0
    /\ \E j \in DOMAIN chunking.chunks[1] : chunking.chunks[1][j] \notin TokenChars

\* C14: no chunk that chunk returns is empty or whitespace-only, and the
\* payloads index_document builds for one document carry the chunk_id
\* values 0, 1, ..., n-1 in output order, n being the number of kept chunks.
C14_DenseChunkIds ==
    (last.op = "index_document" /\ last.initialized_at_call)
        => /\ \A i \in DOMAIN last.chunks :
                 \E j \in DOMAIN last.chunks[i] : last.chunks[i][j] \notin Whitespace
           /\ Len(last.payloads) = Len(last.chunks)
           /\ [i \in DOMAIN last.payloads |-> last.payloads[i].chunk_id]
                 = [i \in DOMAIN last.chunks |-> i - 1]

\* C17: chunk returns the empty sequence for a blank text and for a text
\* without tokens, and an index_document call whose chunking of a non-blank
\* document returns the empty sequence is 'skipped' with chunks_total = 0
\* and chunks_indexed = 0, without embedding and without upsert.
C17_NoChunksSkipped ==
    /\ \A d \in Documents :
          ((\A i \in DOMAIN d : d[i] \in Whitespace) \/ Tokenize(d) = <<>>)
              => chunk(d, config) = <<>>
    /\ (/\ last.op = "index_document" /\ last.initialized_at_call
        /\ \E i \in DOMAIN last.text : last.text[i] \notin Whitespace
        /\ "chunk" \in SeqToSet(last.steps) /\ last.fault # "tokenizer"
        /\ chunk(last.text, config) = <<>>)
          => /\ last.raised = NoExc
             /\ last.status = "skipped"
             /\ last.chunks_total = 0 /\ last.chunks_indexed = 0
             /\ SeqToSet(last.steps) \cap {"embed_with_cache", "upsert"} = {}
             /\ last.model_batches = <<>>
             /\ Cardinality(store) = last.points_before

\* a document of one character that is neither whitespace nor a token was
\* handed over and chunked
C17_Witness ==
    /\ last.op = "index_document" /\ last.initialized_at_call
    /\ last.text = <<"zw">>
    /\ last.steps = <<"probe", "chunk">>
    /\ last.message = "Chunking returned empty"

\* position of a step in the order of index_document
StepOrder(step) ==
    IF step = "probe" THEN 1 ELSE IF step = "chunk" THEN 2
    ELSE IF step = "embed_with_cache" THEN 3 ELSE 4

\* C18: every index_document call on an initialized index ends in exactly
\* one of the statuses 'indexed', 'skipped', 'failed', and the steps it takes
\* are in the order probe, chunk, embed_with_cache, upsert, each at most
\* once, none after a step that failed or produced a skip.
C18_OneTerminalStatus ==
    (last.op = "index_document" /\ last.initialized_at_call)
        => /\ last.raised = NoExc
           /\ last.status \in {"indexed", "skipped", "failed"}
           /\ SeqToSet(last.steps) \subseteq {"probe", "chunk", "embed_with_cache", "upsert"}
           /\ \A i \in 1..(Len(last.steps) - 1) :
                 StepOrder(last.steps[i]) < StepOrder(last.steps[i + 1])
           /\ last.status = "indexed"
                 => last.steps[Len(last.steps)] = "upsert"
           /\ last.message = "Document already indexed"
                 => last.steps = <<"probe">>

\* C19: an index_document call returns 'indexed' only after one upsert
\* call, with chunks_total = chunks_indexed = number of kept chunks; calls
\* returning 'skipped' or 'failed' leave the store as it was; a document of
\* 3 chunks indexed with the defaults into an empty store returns 'indexed'
\* with chunks_total = 3 and chunks_indexed = 3.
C19_IndexedIffUpserted ==
    (last.op = "index_document" /\ last.initialized_at_call)
        => /\ last.status = "indexed"
                 => /\ Len(SelectSeq(last.steps, LAMBDA st : st = "upsert")) = 1
                    /\ last.chunks_total = Len(last.chunks)
                    /\ last.chunks_indexed = Len(last.chunks)
           /\ last.status \in {"skipped", "failed"}
                 => Cardinality(store) = last.points_before
           /\ (/\ Len(chunk(last.text, config)) = 3
               /\ last.skip_existing /\ ~last.force_reindex
               /\ last.fault = "none" /\ last.points_before = 0)
                 => /\ last.status = "indexed"
                    /\ last.chunks_total = 3 /\ last.chunks_indexed = 3

\* C20: build_index calls index_document once per document of the dataset,
\* in dataset order; a document whose indexing fails does not stop the run,
\* and when the run ends indexed_doc_count + skipped_doc_count +
\* error_doc_count is the number of documents of the dataset.
C20_EveryDocumentCounted ==
    /\ build.calls = SubSeq(build.dataset, 1, Len(build.calls))
    /\ build.pc # "raised"
    /\ build.pc = "done"
          => /\ build.calls = build.dataset
             /\ build.indexed_doc_count + build.skipped_doc_count
                   + build.error_doc_count = Len(build.dataset)

\* C21: with local caching enabled build_index compares the cache size with
\* the limit after every batch, once per batch, and clears the cache when it
\* is over the limit, so a batch after the first starts with a cache that is
\* not over the limit.
C21_CacheCheckedPerBatch ==
    config.enable_local_cache
        => /\ build.pc \in {"done", "raised"}
                 => build.cache_checks = CeilDiv(Len(build.dataset), build.batch_size)
           /\ (build.pc = "running" /\ build.doc_count > 0)
                 => get_cache_size(local_cache) <= CacheLimitSize

\* C25: initialize is one-time.  The index is marked initialized only when the
\* chunker, the embedder and the vector store have all been constructed, an
\* initialize that raises leaves it unmarked, and an initialize call on an
\* initialized index, whatever configuration it is given, leaves config and
\* the three components as they were.
C25_InitializeOnce ==
    /\ [](/\ initialized => components = Constructed("none")
          /\ (last.op = "initialize" /\ last.raised # NoExc) => ~initialized)
    /\ [][(initialized /\ last'.op = "initialize")
            => /\ config' = config
               /\ components' = components
               /\ initialized'
               /\ last'.returned]_vars

C25_Witness ==
    /\ last.op = "initialize"
    /\ last.initialized_at_call
    /\ last.returned
    /\ initialized
    /\ prev.op = "initialize"

\* the texts of a list of batches, in the order they were sent
RECURSIVE Flatten(_)
Flatten(batches) ==
    IF batches = <<>> THEN <<>> ELSE Head(batches) \o Flatten(Tail(batches))

\* C29: within one embed_with_cache call every distinct text that neither the
\* vector store nor the local cache resolves is sent to the embedding model
\* exactly once, however often it occurs in the input, so the number of texts
\* sent equals the number of distinct unresolved content hashes.
C29_DistinctTextsEmbeddedOnce ==
    [][(last'.op = "embed_with_cache" /\ last'.fault = "none")
        => LET hashes == {text_hash(t) : t \in SeqToSet(last'.texts)}
               unresolved ==
                   {h \in hashes :
                       /\ h \notin StoreIds(store)
                       /\ ~config.enable_local_cache \/ h \notin DOMAIN local_cache}
               sent == Flatten(last'.model_batches)
           IN  /\ Len(sent) = Cardinality(unresolved)
               /\ \A h \in unresolved :
                    Cardinality({i \in DOMAIN sent : text_hash(sent[i]) = h}) = 1]_vars

\* C22: with force_reindex=True or skip_existing=False index_document does not
\* probe the store, and a non-blank document that is already indexed is
\* chunked, embedded and upserted again: the result is "indexed" and the
\* store holds the same point ids as before the call.
C22_ReindexWithoutProbe ==
    [][(/\ last'.op = "index_document"
        /\ last'.force_reindex \/ ~last'.skip_existing
        /\ last'.fault = "none"
        /\ ~IsBlank(last'.text)
        /\ document_exists(store, hash_document(last'.text), last'.metadata) > 0)
        => /\ \A i \in DOMAIN last'.steps : last'.steps[i] # "probe"
           /\ last'.status = "indexed"
           /\ StoreIds(store') = StoreIds(store)]_vars

\* C30: every IndexResult returned by index_document has
\* 0 <= chunks_indexed <= chunks_total, whatever its status, the "skipped" of
\* an already indexed document included.
C30_IndexedWithinTotal ==
    (last.op = "index_document" /\ last.status # "none")
        => /\ 0 <= last.chunks_indexed
           /\ last.chunks_indexed <= last.chunks_total

\* C28: an index_document call that returns "skipped", or "failed" because
\* chunking or embedding raised, leaves the points of the vector store (ids,
\* vectors and payloads) as they were; a call changes the store only if it
\* reached the upsert step.
C28_StoreKeptWithoutUpsert ==
    [][last'.op = "index_document"
        => /\ last'.status \in {"skipped", "failed"} => store' = store
           /\ store' # store
                => \E i \in DOMAIN last'.steps : last'.steps[i] = "upsert"]_vars

C28_Witness ==
    /\ store # {}
    /\ last.op = "index_document"
    /\ last.status = "failed"
    /\ last.steps = <<"chunk">>
    /\ prev.op = "index_document"
    /\ prev.status = "skipped"
    /\ prev.chunks_indexed > 0

\* C23: search(query, top_k) on an initialized index invokes the embedding
\* model exactly once, with the single-item batch [query] and through neither
\* cache tier, returns at most top_k results and at most as many as the store
\* has points, and leaves the vector store and the local cache unchanged.
C23_SearchReadsOnly ==
    [][(last'.op = "search" /\ last'.fault = "none")
        => /\ last'.returned
           /\ last'.model_batches = << <<last'.text>> >>
           /\ last'.steps = <<"embed", "query_search">>
           /\ last'.hits <= last'.top_k
           /\ last'.hits <= Cardinality(store)
           /\ store' = store
           /\ local_cache' = local_cache]_vars

C23_Witness ==
    /\ last.op = "search"
    /\ last.returned
    /\ text_hash(last.text) \in StoreIds(store)
    /\ last.model_batches = << <<last.text>> >>
    /\ Cardinality(store) > last.top_k
    /\ last.hits = last.top_k

\* C24: cache maintenance on a constructed Embedder, with the local cache
\* enabled or not, never raises: clear_local_cache leaves an empty cache of
\* size 0, clear_cached_embedding(h) removes the entry of h and nothing else
\* (nothing at all when h has no entry), and get_cache_size reports the size
\* and changes nothing.
C24_CacheMaintenance ==
    [][/\ last'.op \in {"clear_local_cache", "clear_cached_embedding",
                         "get_cache_size"}
            => last'.raised = NoExc
       /\ last'.op = "clear_local_cache"
            => local_cache' = EmptyMap /\ get_cache_size(local_cache') = 0
       /\ last'.op = "clear_cached_embedding"
            => /\ DOMAIN local_cache' = DOMAIN local_cache \ {last'.hashes[1]}
               /\ \A k \in DOMAIN local_cache' : local_cache'[k] = local_cache[k]
       /\ last'.op = "get_cache_size"
            => /\ last'.cache_size = get_cache_size(local_cache)
               /\ local_cache' = local_cache]_vars

====
